---- MODULE Spec2Model ----
(***************************************************************************)
(* diagexec (stage1/rootfs/diagexec/diagexec.c): chroot into a root, exec  *)
(* a target, and when the exec fails with ENOENT/EACCES walk the target's  *)
(* interpreter chain (shebang line or ELF PT_INTERP) to explain why.       *)
(*                                                                         *)
(* Bytes are naturals 0..255, a file's contents a sequence of bytes        *)
(* (offset o is element o+1), a C string a sequence of non-zero bytes.     *)
(***************************************************************************)
EXTENDS Integers, Sequences, FiniteSets, TLC

(***************************************************************************)
(* Bounds of the model.                                                    *)
(***************************************************************************)
MaxPathLen == 3      \* longest text between "#!" and the newline in a generated script
ChainExtra == 2      \* interpreter chains have up to MAX_DIAG_DEPTH + 1 + ChainExtra files

(***************************************************************************)
(* Program constants.                                                      *)
(***************************************************************************)
MAX_DIAG_DEPTH == 10
PATH_MAX == 4096
PAGE_SIZE == 4096
EXIT_FAILURE == 1
SIGSEGV == 11

\* elf.h
ELF_BITS == 4
ELF_BITS_32 == 1
ELF_BITS_64 == 2
ELF_ENDIAN == 5
ELF_ENDIAN_LITL == 1
ELF_ENDIAN_BIG == 2
ELF_VERSION == 6
ELF32_PHT_OFF == 28
ELF32_PHTE_SIZE == 42
ELF32_PHTE_CNT == 44
ELF32_PHE_OFF == 4
ELF32_PHE_SIZE == 16
ELF64_PHT_OFF == 32
ELF64_PHTE_SIZE == 54
ELF64_PHTE_CNT == 56
ELF64_PHE_OFF == 8
ELF64_PHE_SIZE == 32
ELF_PT_INTERP == 3

\* character codes
NUL == 0
NL == 10
SLASH == 47

elf == <<127, 69, 76, 70>>       \* 0x7f 'E' 'L' 'F'
shebang == <<35, 33>>            \* '#' '!'

\* The null pointer, as a value no string equals.
NULL == << -1 >>

Min(a, b) == IF a < b THEN a ELSE b
Max(a, b) == IF a > b THEN a ELSE b

(***************************************************************************)
(* The mapping of a file: mmap gives whole pages, the bytes past the end   *)
(* of the file up to the page boundary read as zero; anything beyond the   *)
(* mapping is outside the object.                                          *)
(***************************************************************************)
MapLen(b) == ((Len(b) + PAGE_SIZE - 1) \div PAGE_SIZE) * PAGE_SIZE

\* mm[o], for an offset inside the mapping
Byte(b, o) == IF o < Len(b) THEN b[o + 1] ELSE 0

\* n bytes at offset o lie inside the mapping
InMap(b, o, n) == o >= 0 /\ o + n <= MapLen(b)

(***************************************************************************)
(* elf.h accessors: little/big endian 16, 32 and 64 bit reads.             *)
(***************************************************************************)
RECURSIVE LeGet(_, _, _)
LeGet(b, o, n) == IF n = 0 THEN 0 ELSE Byte(b, o) + 256 * LeGet(b, o + 1, n - 1)

RECURSIVE BeGet(_, _, _)
BeGet(b, o, n) == IF n = 0 THEN 0 ELSE BeGet(b, o, n - 1) * 256 + Byte(b, o + n - 1)

le_sget(b, o) == LeGet(b, o, 2)
be_sget(b, o) == BeGet(b, o, 2)
le_iget(b, o) == LeGet(b, o, 4)
be_iget(b, o) == BeGet(b, o, 4)
le32_lget(b, o) == LeGet(b, o, 4)
be32_lget(b, o) == BeGet(b, o, 4)
le64_lget(b, o) == LeGet(b, o, 8)
be64_lget(b, o) == BeGet(b, o, 8)

\* An accessor set is the names of the three functions chosen; "" is the
\* null function pointer.
NoAcc == [lget |-> "", sget |-> "", iget |-> ""]

lget(a, b, o) ==
  CASE a.lget = "le32_lget" -> le32_lget(b, o)
    [] a.lget = "be32_lget" -> be32_lget(b, o)
    [] a.lget = "le64_lget" -> le64_lget(b, o)
    [] a.lget = "be64_lget" -> be64_lget(b, o)

sget(a, b, o) ==
  CASE a.sget = "le_sget" -> le_sget(b, o)
    [] a.sget = "be_sget" -> be_sget(b, o)

iget(a, b, o) ==
  CASE a.iget = "le_iget" -> le_iget(b, o)
    [] a.iget = "be_iget" -> be_iget(b, o)

\* width in bytes of what lget reads
LWidth(a) == IF a.lget \in {"le64_lget", "be64_lget"} THEN 8 ELSE 4

(***************************************************************************)
(* File classification (diag, lines 49-50 and 58-59): memcmp against the   *)
(* signatures, guarded by the file size.                                   *)
(***************************************************************************)
Prefix(b, sig) == [k \in 1..Len(sig) |-> Byte(b, k - 1)]

IsShebang(size, b) == size >= Len(shebang) /\ Prefix(b, shebang) = shebang

\* an ELF test that looks at the first byte of the signature only
IsElfFirstByte(size, b) == size >= Len(elf) /\ Byte(b, 0) = elf[1]

IsElf(size, b) == size >= Len(elf) /\ Prefix(b, elf) = elf

\* offsets the signature comparisons read
ClassifyReads(size, b) ==
  (IF size >= Len(shebang) THEN 0..(Len(shebang) - 1) ELSE {})
  \cup (IF ~IsShebang(size, b) /\ size >= Len(elf) THEN 0..(Len(elf) - 1) ELSE {})

(***************************************************************************)
(* libc on the mapping.                                                    *)
(***************************************************************************)
SetMin(S) == CHOOSE x \in S : \A y \in S : x <= y

\* memchr(&mm[from], c, n): offset of the first c, -1 for a null result
memchr(b, from, c, n) ==
  LET hits == {o \in from..(from + n - 1) : Byte(b, o) = c}
  IN IF hits = {} THEN -1 ELSE SetMin(hits)

\* strnlen(&mm[off], n) as strndup computes it; -1 when the scan leaves the mapping
strnlen(b, off, n) ==
  IF n = 0 THEN 0
  ELSE IF ~InMap(b, off, 1) THEN -1
  ELSE LET lim == Min(n, MapLen(b) - off)
           nuls == {k \in 0..(lim - 1) : Byte(b, off + k) = NUL}
       IN IF nuls # {} THEN SetMin(nuls)
          ELSE IF lim = n THEN n ELSE -1

\* the bytes strndup copies
Str(b, off, len) == [k \in 1..len |-> Byte(b, off + k - 1)]

(***************************************************************************)
(* Shebang line (diag, lines 51-57).                                       *)
(***************************************************************************)
\* line 52: int maxlen = MIN(PATH_MAX, st.st_size - sizeof(shebang))
ShebangMaxLen(size) == Min(PATH_MAX, size - Len(shebang))

\* line 54: nl = memchr(&mm[sizeof(shebang)], '\n', maxlen)
ShebangNl(size, b) == memchr(b, Len(shebang), NL, ShebangMaxLen(size))

\* a length that leaves out the byte before the newline
ShebangLenTrimOne(nlOff) == Max(0, nlOff - 2 - 1)

\* line 56: the length given to strndup, (nl - mm) - 2, drops the two bytes before it
ShebangLenTrimTwoMore(nlOff) == Max(0, nlOff - 2 - 2)

ShebangLen(nlOff) == nlOff - 2

\* a copy that stops at the first space of the line
ShebangItrpFirstWord(b, nlOff) ==
  LET sp == memchr(b, Len(shebang), 32, ShebangLen(nlOff))
  IN Str(b, Len(shebang),
         strnlen(b, Len(shebang), IF sp = -1 THEN ShebangLen(nlOff) ELSE sp - Len(shebang)))

\* line 56: strndup((char *)&mm[sizeof(shebang)], (nl - mm) - 2)
ShebangItrp(b, nlOff) ==
  Str(b, Len(shebang), strnlen(b, Len(shebang), ShebangLen(nlOff)))

(***************************************************************************)
(* ELF (diag, lines 60-114).                                               *)
(***************************************************************************)
\* a selection that ignores the class for the entry fields and the byte
\* order for the 16-bit accessor
ElfLayoutClassBlind(b) ==
  LET e == Byte(b, ELF_ENDIAN)
      c == Byte(b, ELF_BITS)
      lg == IF c = ELF_BITS_32
            THEN (IF e = ELF_ENDIAN_LITL THEN "le32_lget" ELSE "be32_lget")
            ELSE (IF e = ELF_ENDIAN_LITL THEN "le64_lget" ELSE "be64_lget")
  IN IF c \in {ELF_BITS_32, ELF_BITS_64}
     THEN [acc |-> IF e \in {ELF_ENDIAN_LITL, ELF_ENDIAN_BIG}
                   THEN [lget |-> lg, sget |-> "le_sget",
                         iget |-> IF e = ELF_ENDIAN_LITL THEN "le_iget" ELSE "be_iget"]
                   ELSE NoAcc,
           phoff |-> IF c = ELF_BITS_32 THEN ELF32_PHT_OFF ELSE ELF64_PHT_OFF,
           phesz |-> IF c = ELF_BITS_32 THEN ELF32_PHTE_SIZE ELSE ELF64_PHTE_SIZE,
           phecnt |-> IF c = ELF_BITS_32 THEN ELF32_PHTE_CNT ELSE ELF64_PHTE_CNT,
           phreloff |-> ELF32_PHE_OFF, phrelsz |-> ELF32_PHE_SIZE]
     ELSE [acc |-> NoAcc, phoff |-> -1, phesz |-> -1, phecnt |-> -1,
           phreloff |-> 0, phrelsz |-> 0]

\* a selection that takes every byte order other than big for little
ElfLayoutDefaultLittle(b) ==
  LET big == Byte(b, ELF_ENDIAN) = ELF_ENDIAN_BIG
  IN IF Byte(b, ELF_BITS) = ELF_BITS_32
     THEN [acc |-> IF big
                   THEN [lget |-> "be32_lget", sget |-> "be_sget", iget |-> "be_iget"]
                   ELSE [lget |-> "le32_lget", sget |-> "le_sget", iget |-> "le_iget"],
           phoff |-> ELF32_PHT_OFF, phesz |-> ELF32_PHTE_SIZE, phecnt |-> ELF32_PHTE_CNT,
           phreloff |-> ELF32_PHE_OFF, phrelsz |-> ELF32_PHE_SIZE]
     ELSE IF Byte(b, ELF_BITS) = ELF_BITS_64
     THEN [acc |-> IF big
                   THEN [lget |-> "be64_lget", sget |-> "be_sget", iget |-> "be_iget"]
                   ELSE [lget |-> "le64_lget", sget |-> "le_sget", iget |-> "le_iget"],
           phoff |-> ELF64_PHT_OFF, phesz |-> ELF64_PHTE_SIZE, phecnt |-> ELF64_PHTE_CNT,
           phreloff |-> ELF64_PHE_OFF, phrelsz |-> ELF64_PHE_SIZE]
     ELSE [acc |-> NoAcc, phoff |-> -1, phesz |-> -1, phecnt |-> -1,
           phreloff |-> 0, phrelsz |-> 0]

\* lines 71-101: the accessors and the field offsets; phoff = -1 is the
\* null pointer the locals start as
ElfLayout(b) ==
  LET e == Byte(b, ELF_ENDIAN)
  IN IF Byte(b, ELF_BITS) = ELF_BITS_32
     THEN [acc |-> IF e = ELF_ENDIAN_LITL
                   THEN [lget |-> "le32_lget", sget |-> "le_sget", iget |-> "le_iget"]
                   ELSE IF e = ELF_ENDIAN_BIG
                   THEN [lget |-> "be32_lget", sget |-> "be_sget", iget |-> "be_iget"]
                   ELSE NoAcc,
           phoff |-> ELF32_PHT_OFF, phesz |-> ELF32_PHTE_SIZE, phecnt |-> ELF32_PHTE_CNT,
           phreloff |-> ELF32_PHE_OFF, phrelsz |-> ELF32_PHE_SIZE]
     ELSE IF Byte(b, ELF_BITS) = ELF_BITS_64
     THEN [acc |-> IF e = ELF_ENDIAN_LITL
                   THEN [lget |-> "le64_lget", sget |-> "le_sget", iget |-> "le_iget"]
                   ELSE IF e = ELF_ENDIAN_BIG
                   THEN [lget |-> "be64_lget", sget |-> "be_sget", iget |-> "be_iget"]
                   ELSE NoAcc,
           phoff |-> ELF64_PHT_OFF, phesz |-> ELF64_PHTE_SIZE, phecnt |-> ELF64_PHTE_CNT,
           phreloff |-> ELF64_PHE_OFF, phrelsz |-> ELF64_PHE_SIZE]
     ELSE [acc |-> NoAcc, phoff |-> -1, phesz |-> -1, phecnt |-> -1,
           phreloff |-> 0, phrelsz |-> 0]

\* a test of the value of the field: no table when e_phoff is zero
PhoffValueIsZero(b, lay) == lay.phoff = -1 \/ lget(lay.acc, b, lay.phoff) = 0

\* line 105: if(!phoff), a test of the pointer to the field
PhoffIsNull(b, lay) == lay.phoff = -1

\* line 111: strndup of the PT_INTERP segment of the entry at ph
InterpOf(b, lay, ph, rd) ==
  IF ~InMap(b, ph + lay.phreloff, LWidth(lay.acc)) \/ ~InMap(b, ph + lay.phrelsz, LWidth(lay.acc))
  THEN [kind |-> "wild", itrp |-> NULL, reads |-> rd]
  ELSE LET off == lget(lay.acc, b, ph + lay.phreloff)
           sz == lget(lay.acc, b, ph + lay.phrelsz)
           len == strnlen(b, off, sz)
           rd2 == rd \cup (ph + lay.phreloff)..(ph + lay.phreloff + LWidth(lay.acc) - 1)
                     \cup (ph + lay.phrelsz)..(ph + lay.phrelsz + LWidth(lay.acc) - 1)
       IN IF len = -1
          THEN [kind |-> "wild", itrp |-> NULL, reads |-> rd2]
          ELSE [kind |-> "found", itrp |-> Str(b, off, len),
                reads |-> rd2 \cup off..(off + Min(len, sz - 1))]

\* the loop without its break: every PT_INTERP entry overwrites itrp
RECURSIVE ScanNoBreak(_, _, _, _, _, _)
ScanNoBreak(b, lay, ph, i, rd, best) ==
  IF i >= sget(lay.acc, b, lay.phecnt) THEN [best EXCEPT !.reads = rd]
  ELSE IF ~InMap(b, ph, 4) THEN [kind |-> "wild", itrp |-> NULL, reads |-> rd]
  ELSE LET rd1 == rd \cup ph..(ph + 3)
           nxt == ph + sget(lay.acc, b, lay.phesz)
       IN IF iget(lay.acc, b, ph) = ELF_PT_INTERP
          THEN LET r == InterpOf(b, lay, ph, rd1)
               IN IF r.kind = "wild" THEN r
                  ELSE ScanNoBreak(b, lay, nxt, i + 1, r.reads, r)
          ELSE ScanNoBreak(b, lay, nxt, i + 1, rd1, best)

\* lines 109-114: for(ph = &mm[lget(phoff)], i = 0; i < sget(phecnt); i++, ph += sget(phesz))
RECURSIVE Scan(_, _, _, _, _, _)
Scan(b, lay, ph, i, rd, best) ==
  IF i >= sget(lay.acc, b, lay.phecnt) THEN [best EXCEPT !.reads = rd]
  ELSE IF ~InMap(b, ph, 4) THEN [kind |-> "wild", itrp |-> NULL, reads |-> rd]
  ELSE LET rd1 == rd \cup ph..(ph + 3)
       IN IF iget(lay.acc, b, ph) = ELF_PT_INTERP
          THEN InterpOf(b, lay, ph, rd1)
          ELSE Scan(b, lay, ph + sget(lay.acc, b, lay.phesz), i + 1, rd1, best)

\* offsets of the three header fields the loop reads
HeaderReads(lay) ==
  lay.phoff..(lay.phoff + LWidth(lay.acc) - 1)
  \cup lay.phesz..(lay.phesz + 1) \cup lay.phecnt..(lay.phecnt + 1)

\* the whole loop on a mapped ELF file whose accessors are chosen
ElfItrp(b, lay) ==
  Scan(b, lay, lget(lay.acc, b, lay.phoff), 0, HeaderReads(lay),
       [kind |-> "none", itrp |-> NULL, reads |-> {}])

(***************************************************************************)
(* The files the walk is run on.  A file is a record: type "reg" or "dir", *)
(* its exec and read permission, its bytes.  A filesystem maps the paths   *)
(* that exist under the new root to files.                                 *)
(***************************************************************************)
RECURSIVE LeEnc(_, _)
LeEnc(v, n) == IF n = 0 THEN <<>> ELSE <<v % 256>> \o LeEnc(v \div 256, n - 1)

RECURSIVE BeEnc(_, _)
BeEnc(v, n) == IF n = 0 THEN <<>> ELSE BeEnc(v \div 256, n - 1) \o <<v % 256>>

Enc(endian, v, n) == IF endian = ELF_ENDIAN_BIG THEN BeEnc(v, n) ELSE LeEnc(v, n)

\* b with data written at offset off, zero-extended as needed
Poke(b, off, data) ==
  [k \in 1..Max(Len(b), off + Len(data)) |->
     IF k > off /\ k <= off + Len(data) THEN data[k - off]
     ELSE IF k <= Len(b) THEN b[k] ELSE 0]

RegFile(b) == [type |-> "reg", exec |-> TRUE, read |-> TRUE, bytes |-> b]

\* "/f0", "/f1", ...
Pf(i) == <<SLASH, 102, 48 + i>>

\* "#!" P "\n" T
ShebangBytes(P, T) == shebang \o P \o <<NL>> \o T

\* the width of an address or file offset in the ELF class
ElfWord(bits) == IF bits = ELF_BITS_32 THEN 4 ELSE 8

\* the ELF header and the program header of each class, as the file format
\* lays them out: the fields in order, with their sizes in bytes
Field(n, s) == [name |-> n, size |-> s]

Ehdr(bits) ==
  << Field("e_ident", 16), Field("e_type", 2), Field("e_machine", 2), Field("e_version", 4),
     Field("e_entry", ElfWord(bits)), Field("e_phoff", ElfWord(bits)),
     Field("e_shoff", ElfWord(bits)), Field("e_flags", 4), Field("e_ehsize", 2),
     Field("e_phentsize", 2), Field("e_phnum", 2), Field("e_shentsize", 2),
     Field("e_shnum", 2), Field("e_shstrndx", 2) >>

Phdr(bits) ==
  IF bits = ELF_BITS_32
  THEN << Field("p_type", 4), Field("p_offset", 4), Field("p_vaddr", 4), Field("p_paddr", 4),
          Field("p_filesz", 4), Field("p_memsz", 4), Field("p_flags", 4), Field("p_align", 4) >>
  ELSE << Field("p_type", 4), Field("p_flags", 4), Field("p_offset", 8), Field("p_vaddr", 8),
          Field("p_paddr", 8), Field("p_filesz", 8), Field("p_memsz", 8), Field("p_align", 8) >>

RECURSIVE StructSize(_)
StructSize(fields) ==
  IF fields = <<>> THEN 0 ELSE Head(fields).size + StructSize(Tail(fields))

\* offset of the field called name
RECURSIVE FieldOff(_, _)
FieldOff(fields, name) ==
  IF Head(fields).name = name THEN 0 ELSE Head(fields).size + FieldOff(Tail(fields), name)

ElfHdrSize(bits) == StructSize(Ehdr(bits))
ElfEntSize(bits) == StructSize(Phdr(bits))

\* one program header entry: type, and the segment's offset and size
RECURSIVE PokeEnts(_, _, _, _, _, _)
PokeEnts(b, bits, endian, at, entsz, ents) ==
  IF ents = <<>> THEN b
  ELSE LET e == Head(ents)
           b1 == Poke(b, at + FieldOff(Phdr(bits), "p_type"), Enc(endian, e.type, 4))
           b2 == Poke(b1, at + FieldOff(Phdr(bits), "p_offset"),
                      Enc(endian, e.off, ElfWord(bits)))
           b3 == Poke(b2, at + FieldOff(Phdr(bits), "p_filesz"),
                      Enc(endian, e.size, ElfWord(bits)))
           b4 == IF e.off + Len(e.data) <= PAGE_SIZE THEN Poke(b3, e.off, e.data) ELSE b3
       IN PokeEnts(b4, bits, endian, at + entsz, entsz, Tail(ents))

\* an ELF image: identification, the three program-header fields, the entries
ElfBytes(bits, endian, version, phoff, phcnt, ents) ==
  LET b0 == Poke(elf \o <<bits, endian, version>>, ElfHdrSize(bits) - 1, <<0>>)
      b1 == Poke(b0, FieldOff(Ehdr(bits), "e_phoff"), Enc(endian, phoff, ElfWord(bits)))
      b2 == Poke(b1, FieldOff(Ehdr(bits), "e_phentsize"), Enc(endian, ElfEntSize(bits), 2))
      b3 == Poke(b2, FieldOff(Ehdr(bits), "e_phnum"), Enc(endian, phcnt, 2))
  IN IF phoff < PAGE_SIZE THEN PokeEnts(b3, bits, endian, phoff, ElfEntSize(bits), ents) ELSE b3

\* where the k-th segment's data goes: after room for two entries
SegOff(bits, k) == ElfHdrSize(bits) + 2 * ElfEntSize(bits) + 8 * (k - 1)

PtLoad(bits, k) == [type |-> 1, off |-> SegOff(bits, k), size |-> 4, data |-> <<1, 2, 3, 4>>]

\* a PT_INTERP entry whose segment is the string p and its terminating NUL
PtInterp(bits, k, p) ==
  [type |-> ELF_PT_INTERP, off |-> SegOff(bits, k), size |-> Len(p) + 1, data |-> p \o <<NUL>>]

\* a dynamic executable with the usual layout
ElfDyn(bits, endian, ents) ==
  ElfBytes(bits, endian, 1, ElfHdrSize(bits), Len(ents), ents)

Encodings == {ELF_BITS_32, ELF_BITS_64} \X {ELF_ENDIAN_LITL, ELF_ENDIAN_BIG}

(***************************************************************************)
(* The runs: what is under the new root, and the target given to exec.     *)
(***************************************************************************)
RootDir == [type |-> "dir", exec |-> TRUE, read |-> TRUE, bytes |-> <<>>]

\* a statically linked ELF image: no program header table
StaticElf == ElfBytes(ELF_BITS_64, ELF_ENDIAN_LITL, 1, 0, 0, <<>>)

\* the texts a generated script has between "#!" and the newline
\* '/', 'f', space and carriage return
Alphabet == {SLASH, 102, 32, 13}

RECURSIVE TextsOfLen(_)
TextsOfLen(n) ==
  IF n = 0 THEN {<<>>}
  ELSE {<<c>> \o t : c \in Alphabet, t \in TextsOfLen(n - 1)}

Texts == UNION {TextsOfLen(n) : n \in 0..MaxPathLen}

Trailers == {<<>>, <<102, NL, SLASH>>, <<NUL, 102>>}

\* what a run was generated from
Tag0 == [P |-> <<>>, T |-> <<>>, bits |-> 0, endian |-> 0, cfg |-> "", n |-> 0, flavour |-> ""]

Scn(kind, tag, fs, target) == [kind |-> kind, tag |-> tag, fs |-> fs, target |-> target]

\* what a script's interpreter text can name: "/" and "/f" exist
ScriptFs(b) ==
  (<<SLASH>> :> RootDir) @@ (Pf(0) :> RegFile(b))
  @@ (<<SLASH, 102>> :> RegFile(<<102, 102>>))

ShebangScns ==
  {Scn("shebang", [Tag0 EXCEPT !.P = P, !.T = T], ScriptFs(ShebangBytes(P, T)), Pf(0)) :
     P \in Texts, T \in Trailers}
  \cup {Scn("shebang_nonl", [Tag0 EXCEPT !.P = P], ScriptFs(shebang \o P), Pf(0)) :
          P \in TextsOfLen(0) \cup TextsOfLen(1)}

\* a path of n characters, "/fff...f"
LongPath(n) == [k \in 1..n |-> IF k = 1 THEN SLASH ELSE 102]

\* scripts whose newline is the last byte of the search window, and the
\* first byte after it
ShebangLongScns ==
  {Scn("shebang_long", [Tag0 EXCEPT !.P = LongPath(n), !.n = n],
       ScriptFs(ShebangBytes(LongPath(n), <<>>)), Pf(0)) : n \in {PATH_MAX - 1, PATH_MAX}}

RawContents ==
  { <<>>, <<35>>, <<33, 35, SLASH>>, <<127>>, <<127, 69, 76>>,
    <<127, 69, 76, 71, 2, 1, 1>>, <<102, 102, 102, 102, 102>> }

RawScns ==
  {Scn("raw", Tag0, ScriptFs(b), Pf(0)) : b \in RawContents}
  \cup {Scn("special", Tag0,
            (<<SLASH>> :> RootDir)
            @@ (Pf(0) :> [type |-> "reg", exec |-> FALSE, read |-> TRUE, bytes |-> StaticElf])
            @@ (Pf(1) :> [type |-> "reg", exec |-> TRUE, read |-> FALSE, bytes |-> StaticElf])
            @@ (Pf(2) :> RootDir),
            t) : t \in {Pf(0), Pf(1), Pf(2), Pf(3), <<102, 48>>, <<>>}}

\* the program header configurations of a generated ELF file
ElfCfgs ==
  { "nopht", "off0", "cnt0", "load", "one", "load_one", "two", "rel", "short",
    "wildseg", "wildpht" }

ElfOfCfg(bits, endian, cfg) ==
  CASE cfg = "nopht" -> ElfBytes(bits, endian, 1, 0, 0, <<>>)
    [] cfg = "off0" -> ElfBytes(bits, endian, 1, 0, 1, <<>>)
    [] cfg = "cnt0" ->
         ElfBytes(bits, endian, 1, ElfHdrSize(bits), 0, <<PtInterp(bits, 1, Pf(1))>>)
    [] cfg = "load" -> ElfDyn(bits, endian, <<PtLoad(bits, 1)>>)
    [] cfg = "one" -> ElfDyn(bits, endian, <<PtInterp(bits, 1, Pf(1))>>)
    [] cfg = "load_one" -> ElfDyn(bits, endian, <<PtLoad(bits, 1), PtInterp(bits, 2, Pf(1))>>)
    [] cfg = "two" ->
         ElfDyn(bits, endian, <<PtInterp(bits, 1, Pf(1)), PtInterp(bits, 2, Pf(2))>>)
    [] cfg = "rel" -> ElfDyn(bits, endian, <<PtInterp(bits, 1, <<102, 49>>)>>)
    [] cfg = "short" ->
         ElfDyn(bits, endian, <<[PtInterp(bits, 1, Pf(1) \o <<102>>) EXCEPT !.size = 3]>>)
    [] cfg = "wildseg" ->
         ElfDyn(bits, endian, <<[PtInterp(bits, 1, Pf(1)) EXCEPT !.off = PAGE_SIZE + 8]>>)
    [] cfg = "wildpht" -> ElfBytes(bits, endian, 1, PAGE_SIZE + 64, 1, <<>>)

ElfFs(b) ==
  (<<SLASH>> :> RootDir) @@ (Pf(0) :> RegFile(b))
  @@ (Pf(1) :> RegFile(StaticElf)) @@ (Pf(2) :> RegFile(<<102, 102>>))

ElfScns ==
  {Scn("elf", [Tag0 EXCEPT !.bits = e[1], !.endian = e[2], !.cfg = c],
       ElfFs(ElfOfCfg(e[1], e[2], c)), Pf(0)) : e \in Encodings, c \in ElfCfgs}
  \cup {Scn("elf_bad", [Tag0 EXCEPT !.bits = h[1], !.endian = h[2], !.cfg = "one"],
            ElfFs(ElfBytes(h[1], h[2], h[3], ElfHdrSize(h[1]), 1, <<PtInterp(h[1], 1, Pf(1))>>)),
            Pf(0)) :
          h \in { <<ELF_BITS_64, ELF_ENDIAN_LITL, 2>>, <<ELF_BITS_32, ELF_ENDIAN_BIG, 0>>,
                  <<3, ELF_ENDIAN_LITL, 1>>, <<0, ELF_ENDIAN_BIG, 1>>,
                  <<ELF_BITS_32, 0, 1>>, <<ELF_BITS_64, 3, 1>>, <<3, 3, 2>> }}
  \cup {Scn("elf_bad", [Tag0 EXCEPT !.cfg = "magic"], ElfFs(elf), Pf(0))}

\* a chain f0 -> f1 -> ... -> f(n-1) -> fn, of which f0..f(n-1) exist
\* (short chains, and the lengths around the depth bound)
ChainLens == (1..2) \cup (MAX_DIAG_DEPTH..(MAX_DIAG_DEPTH + 1 + ChainExtra))

ChainEnc(i) ==
  CASE i % 4 = 0 -> <<ELF_BITS_64, ELF_ENDIAN_LITL>>
    [] i % 4 = 1 -> <<ELF_BITS_32, ELF_ENDIAN_BIG>>
    [] i % 4 = 2 -> <<ELF_BITS_64, ELF_ENDIAN_BIG>>
    [] i % 4 = 3 -> <<ELF_BITS_32, ELF_ENDIAN_LITL>>

\* the i-th file of a chain, whose interpreter is the path nxt
ChainFile(flavour, i, nxt) ==
  IF flavour = "sh" \/ (flavour = "mix" /\ i % 2 = 1)
  THEN ShebangBytes(nxt, <<>>)
  ELSE ElfDyn(ChainEnc(i)[1], ChainEnc(i)[2], <<PtInterp(ChainEnc(i)[1], 1, nxt)>>)

ChainFs(flavour, n) ==
  [p \in {<<SLASH>>} \cup {Pf(i) : i \in 0..(n - 1)} |->
     IF p = <<SLASH>> THEN RootDir
     ELSE RegFile(ChainFile(flavour, p[3] - 48, Pf(p[3] - 48 + 1)))]

\* f0 -> ... -> f(n-1) -> f0
CycleFs(flavour, n) ==
  [p \in {<<SLASH>>} \cup {Pf(i) : i \in 0..(n - 1)} |->
     IF p = <<SLASH>> THEN RootDir
     ELSE RegFile(ChainFile(flavour, p[3] - 48, Pf((p[3] - 48 + 1) % n)))]

Flavours == {"sh", "elf", "mix"}

ChainScns ==
  {Scn("chain", [Tag0 EXCEPT !.n = n, !.flavour = f], ChainFs(f, n), Pf(0)) :
     n \in ChainLens, f \in Flavours}
  \cup {Scn("cycle", [Tag0 EXCEPT !.n = n, !.flavour = f], CycleFs(f, n), Pf(0)) :
          n \in 1..2, f \in Flavours}

Scenarios == ShebangScns \cup ShebangLongScns \cup RawScns \cup ElfScns \cup ChainScns

(***************************************************************************)
(* The operating system, as far as the program sees it.                    *)
(***************************************************************************)
\* repeated slashes name the same file
RECURSIVE Squash(_)
Squash(p) ==
  IF Len(p) < 2 THEN p
  ELSE IF p[1] = SLASH /\ p[2] = SLASH THEN Squash(Tail(p))
  ELSE <<p[1]>> \o Squash(Tail(p))

\* the longest file name the filesystem takes (limits.h)
NAME_MAX == 255

\* some component of the path is longer than NAME_MAX
NameTooLong(p) ==
  \E i \in 1..(Len(p) - NAME_MAX) : \A k \in i..(i + NAME_MAX) : p[k] # SLASH

\* open(p, O_RDONLY) with the working directory at "/": the file, or the errno
OpenResult(fs, p) ==
  IF NameTooLong(p) THEN [ok |-> FALSE, errno |-> "ENAMETOOLONG", file |-> RootDir] ELSE
  LET abs == Squash(IF p # <<>> /\ p[1] = SLASH THEN p ELSE <<SLASH>> \o p)
      dirform == Len(abs) > 1 /\ abs[Len(abs)] = SLASH
      name == IF dirform THEN SubSeq(abs, 1, Len(abs) - 1) ELSE abs
  IN IF p = <<>> \/ name \notin DOMAIN fs THEN [ok |-> FALSE, errno |-> "ENOENT", file |-> RootDir]
     ELSE IF dirform /\ fs[name].type # "dir"
     THEN [ok |-> FALSE, errno |-> "ENOTDIR", file |-> RootDir]
     ELSE IF ~fs[name].read THEN [ok |-> FALSE, errno |-> "EACCES", file |-> RootDir]
     ELSE [ok |-> TRUE, errno |-> "", file |-> fs[name]]

\* fstat: S_ISREG, the exec bits, st_size
StatOf(f) == [isreg |-> f.type = "reg", isexec |-> f.exec, size |-> Len(f.bytes)]

NoStat == [isreg |-> FALSE, isexec |-> FALSE, size |-> 0]

\* mmap(NULL, st.st_size, PROT_READ, MAP_SHARED, fd, 0): the mapping, or
\* MAP_FAILED ((void *) -1) for a zero length or when the kernel refuses
NoMap == [addr |-> "unset", bytes |-> <<>>]

MmapResult(f, size, refused) ==
  IF size = 0 \/ refused THEN [addr |-> "MAP_FAILED", bytes |-> <<>>]
  ELSE [addr |-> "mapped", bytes |-> f.bytes]

ExecErrnos == {"ENOENT", "EACCES", "ENOEXEC", "ENOMEM"}

(***************************************************************************)
(* The program's state.                                                    *)
(***************************************************************************)
VARIABLES
  scn,         \* the run: the filesystem under the new root, argv[2]
  argc,        \* main's argc
  os,          \* what the system calls so far returned
  pc,          \* the statement about to run
  exit_err,    \* static int exit_err
  diag_depth,  \* static int diag_depth
  exe,         \* diag's parameter
  fd,          \* diag's fd: the file it opened
  st,          \* diag's st
  mm,          \* diag's mm
  nl,          \* offset of the newline found, -1 for a null pointer
  lay,         \* the accessors and field offsets chosen for an ELF file
  itrp,        \* diag's itrp
  fds,         \* paths of the descriptors the process holds open
  maps,        \* number of mappings the process holds
  reads,       \* offsets of the current mapping read so far
  entered,     \* the paths diag was entered with, in order
  stderr,      \* the diagnostics written
  status       \* how the process ended, if it has

vars == <<scn, argc, os, pc, exit_err, diag_depth, exe, fd, st, mm, nl, lay, itrp,
          fds, maps, reads, entered, stderr, status>>

Running == [kind |-> "running", code |-> 0]

NoLayout == [acc |-> NoAcc, phoff |-> -1, phesz |-> -1, phecnt |-> -1,
             phreloff |-> 0, phrelsz |-> 0]

Init ==
  /\ scn \in Scenarios
  /\ argc \in 1..3
  /\ os = [chroot |-> "", chdir |-> "", exec |-> "", fault |-> FALSE, wild |-> FALSE]
  /\ pc = "usage"
  /\ exit_err = 0
  /\ diag_depth = 0
  /\ exe = <<>>
  /\ fd = RootDir
  /\ st = NoStat
  /\ mm = NoMap
  /\ nl = -1
  /\ lay = NoLayout
  /\ itrp = NULL
  /\ fds = <<>>
  /\ maps = 0
  /\ reads = {}
  /\ entered = <<>>
  /\ stderr = <<>>
  /\ status = Running

(***************************************************************************)
(* exit_if / pexit_if (lines 16-24): count the check, and if the condition *)
(* holds write the diagnostic and exit with the count.                     *)
(***************************************************************************)
\* a counter that is bumped after the test instead of before it
CountCheckLate(e) == e

\* a counter bumped twice per check
CountCheckTwice(e) == e + 2

\* line 18: exit_err++
CountCheck(e) == e + 1

\* line 21: exit(exit_err), as the parent sees it
ExitCode(e) == e % 256

\* lines 20-21
Fail(m, a) ==
  /\ stderr' = Append(stderr, [msg |-> m, arg |-> a])
  /\ status' = [kind |-> "exit", code |-> ExitCode(exit_err')]
  /\ pc' = "done"

\* the statement after a check that passed
Pass(next) ==
  /\ pc' = next
  /\ UNCHANGED <<stderr, status>>

\* killed by a signal
Killed(sig) ==
  /\ status' = [kind |-> "signal", code |-> sig]
  /\ pc' = "done"
  /\ UNCHANGED stderr

\* a recursion that passes its own parameter on: diag(exe)
EnterSame(path) ==
  /\ exe' = exe
  /\ entered' = Append(entered, exe)
  /\ fd' = RootDir
  /\ st' = NoStat
  /\ mm' = NoMap
  /\ nl' = -1
  /\ lay' = NoLayout
  /\ itrp' = NULL
  /\ reads' = {}

\* a new activation of diag(path): its locals, line 37
Enter(path) ==
  /\ exe' = path
  /\ entered' = Append(entered, path)
  /\ fd' = RootDir
  /\ st' = NoStat
  /\ mm' = NoMap
  /\ nl' = -1
  /\ lay' = NoLayout
  /\ itrp' = NULL
  /\ reads' = {}

locals == <<exe, fd, st, mm, nl, lay, itrp, reads, entered>>

(***************************************************************************)
(* main (lines 126-141).                                                   *)
(***************************************************************************)
\* lines 129-130
Main_Usage ==
  /\ pc = "usage"
  /\ exit_err' = CountCheck(exit_err)
  /\ IF argc < 3 THEN Fail("Usage", <<>>) ELSE Pass("chroot")
  /\ UNCHANGED <<scn, argc, os, diag_depth, locals, fds, maps>>

\* line 133
Main_Chroot ==
  /\ pc = "chroot"
  /\ \E r \in {"ok", "fail"} :
       /\ os' = [os EXCEPT !.chroot = r]
       /\ exit_err' = CountCheck(exit_err)
       /\ IF r = "fail" THEN Fail("Chroot failed", <<>>) ELSE Pass("chdir")
  /\ UNCHANGED <<scn, argc, diag_depth, locals, fds, maps>>

\* line 134
Main_Chdir ==
  /\ pc = "chdir"
  /\ \E r \in {"ok", "fail"} :
       /\ os' = [os EXCEPT !.chdir = r]
       /\ exit_err' = CountCheck(exit_err)
       /\ IF r = "fail" THEN Fail("Chdir failed", <<>>) ELSE Pass("exec")
  /\ UNCHANGED <<scn, argc, diag_depth, locals, fds, maps>>

\* a test that lets every errno but ENOEXEC through to the walk
ExecFailureFatalOnlyNoexec(r) == r = "ENOEXEC"

\* lines 135-136: execv(...) == -1 && errno != ENOENT && errno != EACCES
ExecFailureFatal(r) == r # "ENOENT" /\ r # "EACCES"

\* lines 135-138: execv does not return when it succeeds; diag(exe) follows
\* a failure with ENOENT or EACCES
Main_Exec ==
  /\ pc = "exec"
  /\ \E r \in {"ok"} \cup ExecErrnos :
       /\ os' = [os EXCEPT !.exec = r]
       /\ exit_err' = CountCheck(exit_err)
       /\ IF r = "ok"
          THEN /\ status' = [kind |-> "exec", code |-> 0]
               /\ pc' = "done"
               /\ UNCHANGED <<stderr, locals>>
          ELSE IF ExecFailureFatal(r)
          THEN Fail("Exec failed", scn.target) /\ UNCHANGED locals
          ELSE Pass("open") /\ Enter(scn.target)
  /\ UNCHANGED <<scn, argc, diag_depth, fds, maps>>

(***************************************************************************)
(* diag (lines 29-124).                                                    *)
(***************************************************************************)
\* lines 39-40
Diag_Open ==
  /\ pc = "open"
  /\ exit_err' = CountCheck(exit_err)
  /\ LET r == OpenResult(scn.fs, exe)
     IN IF ~r.ok
        THEN Fail("Unable to open", exe) /\ UNCHANGED <<fd, fds>>
        ELSE Pass("stat") /\ fd' = r.file /\ fds' = Append(fds, exe)
  /\ UNCHANGED <<scn, argc, os, diag_depth, exe, st, mm, nl, lay, itrp, reads, entered, maps>>

\* lines 41-42
Diag_Stat ==
  /\ pc = "stat"
  /\ exit_err' = CountCheck(exit_err)
  /\ \E ok \in BOOLEAN :
       /\ os' = [os EXCEPT !.fault = @ \/ ~ok]
       /\ IF ~ok
          THEN Fail("Cannot stat", exe) /\ UNCHANGED st
          ELSE Pass("isreg") /\ st' = StatOf(fd)
  /\ UNCHANGED <<scn, argc, diag_depth, exe, fd, mm, nl, lay, itrp, reads, entered, fds, maps>>

\* line 43
Diag_IsReg ==
  /\ pc = "isreg"
  /\ exit_err' = CountCheck(exit_err)
  /\ IF ~st.isreg THEN Fail("is not a regular file", exe) ELSE Pass("isexec")
  /\ UNCHANGED <<scn, argc, os, diag_depth, locals, fds, maps>>

\* lines 44-45
Diag_IsExec ==
  /\ pc = "isexec"
  /\ exit_err' = CountCheck(exit_err)
  /\ IF ~st.isexec THEN Fail("is not executable", exe) ELSE Pass("mmap")
  /\ UNCHANGED <<scn, argc, os, diag_depth, locals, fds, maps>>

\* a test of the mapping against MAP_FAILED
MapIsFailed(m) == m.addr = "MAP_FAILED"

\* line 46: !(mm = mmap(...)), a test against the null pointer
MapIsNull(m) == m.addr = "NULL"

\* lines 46-47
Diag_Mmap ==
  /\ pc = "mmap"
  /\ exit_err' = CountCheck(exit_err)
  /\ \E refused \in BOOLEAN :
       /\ mm' = MmapResult(fd, st.size, refused)
       /\ os' = [os EXCEPT !.fault = @ \/ (refused /\ st.size > 0)]
  /\ maps' = IF mm'.addr = "mapped" THEN maps + 1 ELSE maps
  /\ IF MapIsNull(mm') THEN Fail("Mmap failed", exe) ELSE Pass("classify")
  /\ UNCHANGED <<scn, argc, diag_depth, exe, fd, st, nl, lay, itrp, reads, entered, fds>>

\* lines 49-50, 58-59, 115: which branch the signature tests take; "fault"
\* when memcmp is handed the failed mapping's address
Classify(size, m) ==
  IF size < Len(shebang) THEN "unsupported"
  ELSE IF m.addr # "mapped" THEN "fault"
  ELSE IF IsShebang(size, m.bytes) THEN "shebang"
  ELSE IF IsElf(size, m.bytes) THEN "elf"
  ELSE "unsupported"

\* line 50 on (void *) -1
Diag_ClassifyFault ==
  /\ pc = "classify"
  /\ Classify(st.size, mm) = "fault"
  /\ Killed(SIGSEGV)
  /\ UNCHANGED <<scn, argc, os, exit_err, diag_depth, locals, fds, maps>>

\* lines 49-55
Diag_ShebangNl ==
  /\ pc = "classify"
  /\ Classify(st.size, mm) = "shebang"
  /\ exit_err' = CountCheck(exit_err)
  /\ nl' = ShebangNl(st.size, mm.bytes)
  /\ reads' = reads \cup ClassifyReads(st.size, mm.bytes)
                \cup Len(shebang)..(IF nl' = -1 THEN Len(shebang) + ShebangMaxLen(st.size) - 1 ELSE nl')
  /\ IF nl' = -1 THEN Fail("Shebang line too long", <<>>) ELSE Pass("sb_dup")
  /\ UNCHANGED <<scn, argc, os, diag_depth, exe, fd, st, mm, lay, itrp, entered, fds, maps>>

\* lines 56-57
Diag_ShebangDup ==
  /\ pc = "sb_dup"
  /\ exit_err' = CountCheck(exit_err)
  /\ \E oom \in BOOLEAN :
       /\ itrp' = IF oom THEN NULL ELSE ShebangItrp(mm.bytes, nl)
       /\ os' = [os EXCEPT !.fault = @ \/ oom]
  /\ IF itrp' = NULL THEN Fail("Failed to dup interpreter path", <<>>) ELSE Pass("itrp")
  /\ UNCHANGED <<scn, argc, diag_depth, exe, fd, st, mm, nl, lay, reads, entered, fds, maps>>

\* lines 58-68
Diag_ElfVersion ==
  /\ pc = "classify"
  /\ Classify(st.size, mm) = "elf"
  /\ exit_err' = CountCheck(exit_err)
  /\ reads' = reads \cup ClassifyReads(st.size, mm.bytes) \cup {ELF_VERSION}
  /\ IF Byte(mm.bytes, ELF_VERSION) # 1
     THEN Fail("Unsupported ELF version", <<Byte(mm.bytes, ELF_VERSION)>>)
     ELSE Pass("elf_fmt")
  /\ UNCHANGED <<scn, argc, os, diag_depth, exe, fd, st, mm, nl, lay, itrp, entered, fds, maps>>

\* lines 70-103
Diag_ElfFormat ==
  /\ pc = "elf_fmt"
  /\ exit_err' = CountCheck(exit_err)
  /\ lay' = ElfLayout(mm.bytes)
  /\ reads' = reads \cup {ELF_BITS}
                \cup (IF lay'.phoff # -1 THEN {ELF_ENDIAN} ELSE {})
  /\ IF lay'.acc.lget = "" THEN Fail("Unsupported ELF format", <<>>) ELSE Pass("elf_scan")
  /\ UNCHANGED <<scn, argc, os, diag_depth, exe, fd, st, mm, nl, itrp, entered, fds, maps>>

\* lines 105-114, when every read stays inside the mapping: return if phoff
\* is null (diag's callers then return in turn, and main returns
\* EXIT_FAILURE), else scan the entries
Diag_ElfScan ==
  /\ pc = "elf_scan"
  /\ IF PhoffIsNull(mm.bytes, lay)
     THEN /\ status' = [kind |-> "exit", code |-> ExitCode(EXIT_FAILURE)]
          /\ pc' = "done"
          /\ UNCHANGED <<os, itrp, reads>>
     ELSE LET r == ElfItrp(mm.bytes, lay)
          IN /\ r.kind # "wild"
             /\ \E oom \in BOOLEAN :
                  /\ oom => r.kind = "found"
                  /\ itrp' = IF oom THEN NULL ELSE r.itrp
                  /\ os' = [os EXCEPT !.fault = @ \/ oom]
             /\ reads' = reads \cup r.reads
             /\ pc' = "itrp"
             /\ status' = status
  /\ UNCHANGED <<scn, argc, exit_err, diag_depth, exe, fd, st, mm, nl, lay, entered, fds,
                 maps, stderr>>

\* what itrp may hold after reads outside the mapping that did not trap
WildItrps == {NULL, <<>>, <<102>>, Pf(0)}

\* lines 109-114, when a computed offset lies outside the mapping: the read
\* is undefined; the process is killed, or goes on with whatever it read
Diag_ElfScanWild ==
  /\ pc = "elf_scan"
  /\ ~PhoffIsNull(mm.bytes, lay)
  /\ ElfItrp(mm.bytes, lay).kind = "wild"
  /\ os' = [os EXCEPT !.wild = TRUE]
  /\ reads' = reads \cup ElfItrp(mm.bytes, lay).reads
  /\ \/ Killed(SIGSEGV) /\ UNCHANGED itrp
     \/ /\ itrp' \in WildItrps
        /\ pc' = "itrp"
        /\ UNCHANGED <<stderr, status>>
  /\ UNCHANGED <<scn, argc, exit_err, diag_depth, exe, fd, st, mm, nl, lay, entered, fds, maps>>

\* lines 115-117
Diag_Unsupported ==
  /\ pc = "classify"
  /\ Classify(st.size, mm) = "unsupported"
  /\ exit_err' = CountCheck(exit_err)
  /\ reads' = reads \cup (IF mm.addr = "mapped" THEN ClassifyReads(st.size, mm.bytes) ELSE {})
  /\ Fail("Unsupported file type", <<>>)
  /\ UNCHANGED <<scn, argc, os, diag_depth, exe, fd, st, mm, nl, lay, itrp, entered, fds, maps>>

\* line 119
Diag_CheckItrp ==
  /\ pc = "itrp"
  /\ exit_err' = CountCheck(exit_err)
  /\ IF itrp = NULL THEN Fail("Unable to determine interpreter", exe) ELSE Pass("abs")
  /\ UNCHANGED <<scn, argc, os, diag_depth, locals, fds, maps>>

\* a test of the last character of the path
LastIsSlash(s) == s # <<>> /\ s[Len(s)] = SLASH

\* line 120: *itrp == '/'
IsAbsolute(s) == s # <<>> /\ s[1] = SLASH

\* line 120
Diag_CheckAbs ==
  /\ pc = "abs"
  /\ exit_err' = CountCheck(exit_err)
  /\ IF ~IsAbsolute(itrp) THEN Fail("Path must be absolute", itrp) ELSE Pass("depth")
  /\ UNCHANGED <<scn, argc, os, diag_depth, locals, fds, maps>>

\* a bound that gives up one level early
DepthExceededEarly(d) == d >= MAX_DIAG_DEPTH

\* a bound that gives up one level late
DepthExceededLate(d) == d > MAX_DIAG_DEPTH + 1

\* line 121: ++diag_depth > MAX_DIAG_DEPTH, on the incremented value
DepthExceeded(d) == d > MAX_DIAG_DEPTH

\* lines 121-123
Diag_CheckDepth ==
  /\ pc = "depth"
  /\ exit_err' = CountCheck(exit_err)
  /\ diag_depth' = diag_depth + 1
  /\ IF DepthExceeded(diag_depth')
     THEN Fail("Excessive interpreter recursion, giving up", <<>>) /\ UNCHANGED locals
     ELSE Pass("open") /\ Enter(itrp)
  /\ UNCHANGED <<scn, argc, os, fds, maps>>

Next ==
  \/ Main_Usage
  \/ Main_Chroot
  \/ Main_Chdir
  \/ Main_Exec
  \/ Diag_Open
  \/ Diag_Stat
  \/ Diag_IsReg
  \/ Diag_IsExec
  \/ Diag_Mmap
  \/ Diag_ClassifyFault
  \/ Diag_ShebangNl
  \/ Diag_ShebangDup
  \/ Diag_ElfVersion
  \/ Diag_ElfFormat
  \/ Diag_ElfScan
  \/ Diag_ElfScanWild
  \/ Diag_Unsupported
  \/ Diag_CheckItrp
  \/ Diag_CheckAbs
  \/ Diag_CheckDepth

Spec == Init /\ [][Next]_vars

\* the program is sequential: a statement that can run does run
FairSpec == Spec /\ WF_vars(Next)

(***************************************************************************)
(* Properties.                                                             *)
(***************************************************************************)
Done == pc = "done"

\* the last diagnostic written, "" when there is none
LastMsg == IF stderr = <<>> THEN "" ELSE stderr[Len(stderr)].msg

Excessive == "Excessive interpreter recursion, giving up"

\* the paths f0 .. f(n-1)
ChainPaths(n) == [i \in 1..n |-> Pf(i - 1)]

\* C1: on a chain of 11 files f0..f10, each naming the next by an absolute
\* path, a walk no system call fails in ends with the excessive-recursion
\* error after diag was entered with f0 and then, once each, with f1..f10:
\* 10 recursive calls.  No 12th file is entered or opened, and in no run is
\* the error raised after another number of calls.
C1_ChainOfElevenHitsDepthBound ==
  /\ (scn.kind = "chain" /\ scn.tag.n = MAX_DIAG_DEPTH + 1 /\ Done
      /\ entered # <<>> /\ ~os.fault)
       => /\ LastMsg = Excessive
          /\ Len(stderr) = 1
          /\ entered = ChainPaths(MAX_DIAG_DEPTH + 1)
          /\ fds = ChainPaths(MAX_DIAG_DEPTH + 1)
  /\ LastMsg = Excessive => Len(entered) - 1 = MAX_DIAG_DEPTH

C1_Witness ==
  /\ scn.kind = "chain" /\ scn.tag.n = MAX_DIAG_DEPTH + 1 /\ scn.tag.flavour = "elf"
  /\ Done /\ LastMsg = Excessive
  /\ Len(entered) = 11 /\ entered[11] = Pf(10)

\* C2: whatever the files are (cyclic and over-long chains included) the
\* walk terminates: the depth counter never decreases and is never reset,
\* diag is entered at most MAX_DIAG_DEPTH + 1 = 11 times, and the process
\* ends.
C2_WalkTerminates ==
  /\ [](Len(entered) <= MAX_DIAG_DEPTH + 1 /\ diag_depth = Max(0, Len(entered) - 1) + (IF LastMsg = Excessive THEN 1 ELSE 0))
  /\ [][diag_depth' >= diag_depth]_vars
  /\ <>Done

C2_Witness ==
  /\ scn.kind = "cycle" /\ scn.tag.n = 1
  /\ Done /\ Len(entered) = MAX_DIAG_DEPTH + 1 /\ LastMsg = Excessive

\* the current file passed the ELF version and format checks
ElfAccepted == lay.acc # NoAcc /\ mm.addr = "mapped"

\* C3 (as claimed): an ELF file of valid version, class and byte order whose
\* program-header-table offset is zero, or whose entry count is zero, ends
\* the walk with no diagnostic written.
C3_StaticElfEndsSilently ==
  (Done /\ ElfAccepted
   /\ (lget(lay.acc, mm.bytes, lay.phoff) = 0 \/ sget(lay.acc, mm.bytes, lay.phecnt) = 0))
    => stderr = <<>>

\* the position of the check that writes a diagnostic: in main, or in the
\* pass of diag that raises it
CheckPos(m) ==
  CASE m = "Usage" -> 1
    [] m = "Chroot failed" -> 2
    [] m = "Chdir failed" -> 3
    [] m = "Exec failed" -> 4
    [] m = "Unable to open" -> 1
    [] m = "Cannot stat" -> 2
    [] m = "is not a regular file" -> 3
    [] m = "is not executable" -> 4
    [] m = "Mmap failed" -> 5
    [] m = "Shebang line too long" -> 6
    [] m = "Unsupported ELF version" -> 6
    [] m = "Unsupported file type" -> 6
    [] m = "Failed to dup interpreter path" -> 7
    [] m = "Unsupported ELF format" -> 7
    [] m = "Unable to determine interpreter" -> 8
    [] m = "Path must be absolute" -> 9
    [] m = Excessive -> 10

\* checks in main before diag, and checks in one full pass of diag
MainChecks == CheckPos("Exec failed")
PassChecks == CheckPos(Excessive)

\* C4: a run that does not exec the target ends with a nonzero status: an
\* error exit's status is in 1..255 because the check counter stays below
\* 256 (at most 4 + 10 * 11 checks), or the process is killed by a signal.
C4_NonzeroMeansFailure ==
  /\ exit_err <= MainChecks + PassChecks * (MAX_DIAG_DEPTH + 1)
  /\ exit_err < 256
  /\ (Done /\ status.kind # "exec")
       => \/ status.kind = "signal"
          \/ status.kind = "exit" /\ status.code \in 1..255

C4_Witness ==
  /\ Done /\ status.kind = "exit"
  /\ status.code = MainChecks + PassChecks * (MAX_DIAG_DEPTH + 1)

\* C5: on an error exit the status is the number of checks executed so far,
\* the failing one included: the checks of main, the ten checks of every
\* earlier pass of diag and the position of the failing check in its pass.
\* So one kind of error has different statuses on the target and on its
\* interpreter, and different kinds at one position have the same status.
C5_StatusCountsChecks ==
  (Done /\ stderr # <<>>)
    => /\ status.kind = "exit"
       /\ Len(stderr) = 1
       /\ status.code =
            IF entered = <<>> THEN CheckPos(LastMsg)
            ELSE MainChecks + PassChecks * (Len(entered) - 1) + CheckPos(LastMsg)

C5_Witness ==
  /\ Done /\ LastMsg = "Unable to open" /\ Len(entered) = 2
  /\ status.code = 15

\* C6: diag is entered only after the argument count check, chroot and chdir
\* passed and execv failed with ENOENT or EACCES; a usage error, a failed
\* chroot or chdir, and an exec failure with another errno each end the
\* process with their own diagnostic, diag never entered.
C6_WalkOnlyAfterExecNotFound ==
  /\ entered # <<>>
       => /\ argc >= 3 /\ os.chroot = "ok" /\ os.chdir = "ok"
          /\ os.exec \in {"ENOENT", "EACCES"}
  /\ (Done /\ argc < 3) => entered = <<>> /\ LastMsg = "Usage"
  /\ (Done /\ os.chroot = "fail") => entered = <<>> /\ LastMsg = "Chroot failed"
  /\ (Done /\ os.chdir = "fail") => entered = <<>> /\ LastMsg = "Chdir failed"
  /\ (Done /\ os.exec \in ExecErrnos \ {"ENOENT", "EACCES"})
       => entered = <<>> /\ LastMsg = "Exec failed" /\ fds = <<>>

C6_Witness ==
  /\ entered # <<>> /\ os.exec = "EACCES" /\ pc = "stat"

\* C7: an extracted interpreter path that does not begin with '/' ends the
\* walk with "Path must be absolute": the depth counter is not incremented
\* for it, and diag is never entered with, nor a file opened for, a path
\* that is not absolute, the target apart.
C7_RelativeInterpreterRejected ==
  /\ \A i \in 2..Len(entered) : entered[i] # <<>> /\ entered[i][1] = SLASH
  /\ \A i \in 2..Len(fds) : fds[i][1] = SLASH
  /\ (itrp # NULL /\ (itrp = <<>> \/ itrp[1] # SLASH))
       => /\ pc \in {"itrp", "abs", "done"}
          /\ Done => /\ stderr = <<[msg |-> "Path must be absolute", arg |-> itrp]>>
                     /\ diag_depth = Len(entered) - 1
                     /\ entered[Len(entered)] = exe

C7_Witness ==
  /\ scn.kind = "shebang" /\ scn.tag.P = <<102, SLASH, 102>>
  /\ Done /\ LastMsg = "Path must be absolute" /\ itrp = <<102, SLASH, 102>>
  /\ diag_depth = 0 /\ entered = <<Pf(0)>>

\* a file's contents carry neither signature
NoSignature(b) ==
  /\ Len(b) < 2 \/ SubSeq(b, 1, 2) # <<35, 33>>
  /\ Len(b) < 4 \/ SubSeq(b, 1, 4) # <<127, 69, 76, 70>>

\* C8: a regular executable file that was mapped, or is empty, and is
\* shorter than the signatures or begins with neither of them, ends the walk
\* with "Unsupported file type": nothing of it is parsed, no byte of it is
\* read but the (at most four) bytes the signature tests compare, and the
\* walk does not recurse.
C8_UnsupportedFileType ==
  (NoSignature(fd.bytes) /\ pc \notin {"open", "stat", "isreg", "isexec", "mmap", "classify"}
   /\ entered # <<>> /\ st.isreg /\ st.isexec
   /\ (mm.addr = "mapped" \/ (mm.addr = "MAP_FAILED" /\ st.size = 0)))
    => /\ Done
       /\ stderr = <<[msg |-> "Unsupported file type", arg |-> <<>>]>>
       /\ reads \subseteq 0..(Min(st.size, Len(elf)) - 1)
       /\ nl = -1 /\ lay = NoLayout /\ itrp = NULL
       /\ diag_depth = Len(entered) - 1
       /\ entered[Len(entered)] = exe

C8_Witness ==
  /\ Done /\ LastMsg = "Unsupported file type"
  /\ fd.bytes = <<127, 69, 76>> /\ reads = {0, 1}

\* C9: for a file "#!" P "\n" T with P an absolute path free of newline and
\* NUL, the interpreter path extracted is P itself, whatever T is.
C9_ShebangRoundTrip ==
  (scn.kind = "shebang" /\ scn.tag.P # <<>> /\ scn.tag.P[1] = SLASH)
    => /\ (Len(entered) = 1 /\ itrp # NULL) => itrp = scn.tag.P
       /\ Len(entered) >= 2 => entered[2] = scn.tag.P

C9_Witness ==
  /\ scn.kind = "shebang" /\ scn.tag.P = <<SLASH, 102, 102>> /\ scn.tag.T = <<102, NL, SLASH>>
  /\ Len(entered) = 2 /\ entered[2] = <<SLASH, 102, 102>>

\* offsets of the second program header entry and of its segment
SecondEntry(bits) ==
  (ElfHdrSize(bits) + ElfEntSize(bits))..(ElfHdrSize(bits) + 2 * ElfEntSize(bits) - 1)
  \cup SegOff(bits, 2)..(SegOff(bits, 2) + 7)

FirstEntry(bits) ==
  ElfHdrSize(bits)..(ElfHdrSize(bits) + ElfEntSize(bits) - 1)
  \cup SegOff(bits, 1)..(SegOff(bits, 1) + 7)

\* C10: the entries are scanned from index 0 up to the entry count and the
\* interpreter is the segment of the first PT_INTERP entry: of two PT_INTERP
\* entries the earlier one is taken and the later one is never read, an
\* entry after a non-matching one is found, and an entry beyond the count is
\* not looked at.
C10_FirstMatchPrecedence ==
  (scn.kind = "elf" /\ Len(entered) = 1 /\ pc \in {"itrp", "abs", "depth", "done"} /\ ~os.fault)
    => /\ scn.tag.cfg = "two"
            => itrp = Pf(1) /\ reads \cap SecondEntry(scn.tag.bits) = {}
       /\ scn.tag.cfg = "load_one" => itrp = Pf(1)
       /\ scn.tag.cfg = "cnt0"
            => itrp = NULL /\ reads \cap FirstEntry(scn.tag.bits) = {}

C10_Witness ==
  /\ scn.kind = "elf" /\ scn.tag.cfg = "two"
  /\ scn.tag.bits = ELF_BITS_32 /\ scn.tag.endian = ELF_ENDIAN_BIG
  /\ pc = "abs" /\ itrp = Pf(1) /\ Len(entered) = 1

\* C11: when a file of the chain names an absolute interpreter that cannot
\* be opened, the walk ends with "Unable to open" naming that interpreter
\* (not the target, not the file that named it), after the naming file
\* passed all ten of its checks, and the exit status is not zero: on a chain
\* f0..f(n-1) whose last file names the missing fn, and in every run.
C11_MissingInterpreterNamed ==
  /\ (scn.kind = "chain" /\ scn.tag.n <= MAX_DIAG_DEPTH /\ Done /\ entered # <<>> /\ ~os.fault)
       => /\ stderr = <<[msg |-> "Unable to open", arg |-> Pf(scn.tag.n)]>>
          /\ entered = ChainPaths(scn.tag.n + 1)
          /\ fds = ChainPaths(scn.tag.n)
  /\ (Done /\ LastMsg = "Unable to open" /\ Len(entered) >= 2)
       => /\ stderr[1].arg = entered[Len(entered)]
          /\ ~OpenResult(scn.fs, stderr[1].arg).ok
          /\ fds = SubSeq(entered, 1, Len(entered) - 1)
          /\ diag_depth = Len(entered) - 1
          /\ exit_err = MainChecks + PassChecks * (Len(entered) - 1) + 1
          /\ status.kind = "exit" /\ status.code # 0

C11_Witness ==
  /\ scn.kind = "chain" /\ scn.tag.n = 2 /\ scn.tag.flavour = "elf"
  /\ Done /\ stderr = <<[msg |-> "Unable to open", arg |-> Pf(2)]>>
  /\ fds = <<Pf(0), Pf(1)>>

(***************************************************************************)
(* C12: for each of the four combinations of class and byte order the      *)
(* extractor selects the accessors and the header and entry field offsets  *)
(* of that combination, and a file with a single PT_INTERP entry yields    *)
(* the same interpreter string in all four encodings.                      *)
(***************************************************************************)
\* the layout of the combination, from the structures of the file format
LayoutOf(bits, endian) ==
  LET w == IF bits = ELF_BITS_32 THEN "32" ELSE "64"
      o == IF endian = ELF_ENDIAN_LITL THEN "le" ELSE "be"
  IN [acc |-> [lget |-> o \o w \o "_lget", sget |-> o \o "_sget", iget |-> o \o "_iget"],
      phoff |-> FieldOff(Ehdr(bits), "e_phoff"),
      phesz |-> FieldOff(Ehdr(bits), "e_phentsize"),
      phecnt |-> FieldOff(Ehdr(bits), "e_phnum"),
      phreloff |-> FieldOff(Phdr(bits), "p_offset"),
      phrelsz |-> FieldOff(Phdr(bits), "p_filesz")]

\* the first file is an ELF file of one of the four encodings, past the scan
FirstElfScanned ==
  /\ scn.kind = "elf" /\ Len(entered) = 1
  /\ pc \in {"itrp", "abs", "depth"}

C12_ClassEndianMatrix ==
  /\ FirstElfScanned => lay = LayoutOf(scn.tag.bits, scn.tag.endian)
  /\ (FirstElfScanned /\ scn.tag.cfg = "one" /\ ~os.fault /\ ~os.wild) => itrp = Pf(1)
  /\ (scn.kind = "elf" /\ scn.tag.cfg = "one" /\ Len(entered) >= 2 /\ ~os.wild)
       => entered[2] = Pf(1)

C12_Witness ==
  /\ scn.kind = "elf" /\ scn.tag.cfg = "one"
  /\ scn.tag.bits = ELF_BITS_64 /\ scn.tag.endian = ELF_ENDIAN_BIG
  /\ lay.acc.lget = "be64_lget" /\ lay.phrelsz = ELF64_PHE_SIZE
  /\ pc = "depth" /\ entered = <<Pf(0)>> /\ itrp = Pf(1)

(***************************************************************************)
(* C13 (as claimed): an ELF file whose program header table holds no       *)
(* PT_INTERP entry ends the walk with 'Unable to determine interpreter'    *)
(* naming that file, an ELF file with no program headers ends the walk     *)
(* without that error, and no file takes the outcome of the other case.    *)
(***************************************************************************)
\* the walk ended on an accepted ELF file whose scan stayed in the mapping
ElfScanEnded == Done /\ ElfAccepted /\ ~os.wild /\ ~os.fault /\ itrp = NULL

\* the number of entries the header of the current file declares
DeclaredEntries == sget(lay.acc, mm.bytes, lay.phecnt)

C13_EmptyCasesDistinguished ==
  /\ (ElfScanEnded /\ DeclaredEntries > 0)
       => stderr = <<[msg |-> "Unable to determine interpreter", arg |-> exe]>>
  /\ (ElfScanEnded /\ DeclaredEntries = 0)
       => /\ LastMsg # "Unable to determine interpreter"
          /\ stderr = <<>>

(***************************************************************************)
(* C14 (as claimed): for a shebang line ended by carriage return and       *)
(* newline the extracted interpreter path excludes the carriage return,    *)
(* so the walk goes into the path before it and not into a path ending in  *)
(* a carriage return.                                                      *)
(***************************************************************************)
\* the first file is a script whose line is a path followed by CR, newline
CrLfScript ==
  /\ scn.kind = "shebang" /\ Len(scn.tag.P) >= 2
  /\ scn.tag.P[Len(scn.tag.P)] = 13
  /\ Len(entered) = 1 /\ pc \in {"itrp", "abs", "depth"} /\ ~os.fault

\* the text of the line without its last character
BeforeCr == SubSeq(scn.tag.P, 1, Len(scn.tag.P) - 1)

C14_CarriageReturnExcluded == CrLfScript => itrp = BeforeCr

\* C14 (amended): the extracted path is the whole text between the signature
\* and the newline, a trailing carriage return included: the walk goes into
\* the path ending in the carriage return.
C14_CarriageReturnKept ==
  /\ CrLfScript => /\ itrp = scn.tag.P
                   /\ itrp[Len(itrp)] = 13
  /\ (scn.kind = "shebang" /\ Len(scn.tag.P) >= 2 /\ scn.tag.P[Len(scn.tag.P)] = 13
       /\ scn.tag.P[1] = SLASH /\ Len(entered) >= 2)
       => /\ entered[2] = scn.tag.P
          /\ entered[2] # BeforeCr

C14_Witness ==
  /\ scn.kind = "shebang" /\ scn.tag.P = <<SLASH, 102, 13>>
  /\ Done /\ entered = <<Pf(0), <<SLASH, 102, 13>>>>
  /\ stderr = <<[msg |-> "Unable to open", arg |-> <<SLASH, 102, 13>>]>>

(***************************************************************************)
(* C15 (as claimed): at every point of the walk at most one file is held   *)
(* open and mapped: the descriptor and the mapping of a file are released  *)
(* before or when the walk goes into its interpreter, so the number of     *)
(* held files does not grow with the depth of the chain.                   *)
(***************************************************************************)
C15_AtMostOneHeld == Len(fds) <= 1 /\ maps <= 1

(***************************************************************************)
(* C16 (as claimed): if mapping a file fails, mmap returning its failure   *)
(* value, the walk ends at once with the 'Mmap failed' diagnostic naming   *)
(* the file; the file is not classified and none of its bytes are read.    *)
(***************************************************************************)
C16_MmapFailureReported ==
  (mm.addr = "MAP_FAILED" /\ pc # "mmap")
    => /\ Done
       /\ stderr = <<[msg |-> "Mmap failed", arg |-> exe]>>
       /\ status.kind = "exit"
       /\ reads = {}

(***************************************************************************)
(* C17: for a file with the ELF magic the version byte is validated first, *)
(* and a value other than 1 ends the walk with 'Unsupported ELF version';  *)
(* then a class byte other than 32/64-bit, or a byte-order byte other than *)
(* little/big endian, ends the walk with 'Unsupported ELF format'.  No     *)
(* header field or program header entry is read through an accessor before *)
(* both checks have passed.                                                *)
(***************************************************************************)
\* the current file is mapped, has the ELF magic, and is past the branch
PastElfBranch ==
  /\ mm.addr = "mapped" /\ IsElf(st.size, mm.bytes)
  /\ pc # "classify"

\* the bytes of e_ident the checks look at: the magic, class, order, version
IdentReads == 0..ELF_VERSION

C17_VersionThenFormat ==
  LET v == Byte(mm.bytes, ELF_VERSION)
      c == Byte(mm.bytes, ELF_BITS)
      e == Byte(mm.bytes, ELF_ENDIAN)
      known == c \in {ELF_BITS_32, ELF_BITS_64} /\ e \in {ELF_ENDIAN_LITL, ELF_ENDIAN_BIG}
  IN PastElfBranch =>
       /\ v # 1 => /\ Done /\ status.kind = "exit"
                    /\ stderr = <<[msg |-> "Unsupported ELF version", arg |-> <<v>>]>>
                    /\ lay = NoLayout
                    /\ reads \subseteq ((0..(Len(elf) - 1)) \cup {ELF_VERSION})
       /\ (v = 1 /\ ~known /\ pc # "elf_fmt")
            => /\ Done /\ status.kind = "exit"
               /\ LastMsg = "Unsupported ELF format"
               /\ lay.acc = NoAcc
               /\ reads \subseteq IdentReads
       /\ (reads \ IdentReads # {}) => (v = 1 /\ known)
       /\ (pc = "elf_scan") => (v = 1 /\ known)

C17_Witness ==
  /\ scn.kind = "elf_bad" /\ scn.tag.bits = 3 /\ scn.tag.endian = 3
  /\ Done /\ stderr = <<[msg |-> "Unsupported ELF version", arg |-> <<2>>]>>
  /\ reads = {0, 1, 2, 3, ELF_VERSION}

(***************************************************************************)
(* C18 (as claimed): once diag has been entered the process always ends    *)
(* through an error exit that writes a diagnostic; diag never returns to   *)
(* its caller, so the walk has no silent outcome and main's final          *)
(* return EXIT_FAILURE is never executed.                                  *)
(***************************************************************************)
C18_AlwaysEndsWithDiagnostic ==
  (Done /\ entered # <<>>)
    => /\ status.kind = "exit"
       /\ stderr # <<>>
       /\ status.code = ExitCode(exit_err)

(***************************************************************************)
(* C19: the shebang parser takes the whole text between '#!' and the first *)
(* newline as the interpreter path, without splitting on whitespace: a     *)
(* line with arguments makes the walk try to open the path including the   *)
(* arguments, a line with a space after '#!' ends the walk with 'Path must *)
(* be absolute', and a shebang file with no newline inside the search      *)
(* window (the 2-byte file '#!' included) ends with 'Shebang line too      *)
(* long'.                                                                  *)
(***************************************************************************)
\* the first file is a generated script, and the walk is past its line
ScriptParsed ==
  /\ scn.kind \in {"shebang", "shebang_long"} /\ Len(entered) = 1
  /\ pc \in {"itrp", "abs", "depth"} /\ ~os.fault

HasSpace(s) == \E k \in 1..Len(s) : s[k] = 32

\* the file being inspected starts with '#!' and has no newline among the
\* PATH_MAX bytes after the signature
NoNewlineInWindow ==
  /\ mm.addr = "mapped" /\ pc # "classify" /\ st.size >= 2
  /\ mm.bytes[1] = 35 /\ mm.bytes[2] = 33
  /\ \A k \in 3..Min(st.size, PATH_MAX + 2) : mm.bytes[k] # NL

C19_ShebangLineTakenWhole ==
  /\ ScriptParsed => itrp = scn.tag.P
  /\ (scn.kind = "shebang" /\ HasSpace(scn.tag.P) /\ scn.tag.P[1] = SLASH
       /\ Len(entered) >= 2)
       => /\ entered[2] = scn.tag.P
          /\ (Done /\ ~os.fault)
               => stderr = <<[msg |-> "Unable to open", arg |-> scn.tag.P]>>
  /\ (scn.kind = "shebang" /\ scn.tag.P # <<>> /\ scn.tag.P[1] = 32
       /\ Done /\ entered # <<>> /\ ~os.fault /\ mm.addr = "mapped")
       => /\ stderr = <<[msg |-> "Path must be absolute", arg |-> scn.tag.P]>>
          /\ Len(entered) = 1
  /\ NoNewlineInWindow
       => /\ Done /\ status.kind = "exit"
          /\ stderr = <<[msg |-> "Shebang line too long", arg |-> <<>>]>>
  /\ (Done /\ LastMsg = "Shebang line too long") => NoNewlineInWindow

C19_Witness ==
  /\ scn.kind = "shebang" /\ scn.tag.P = <<SLASH, 102, 32>>
  /\ Done /\ entered = <<Pf(0), <<SLASH, 102, 32>>>>
  /\ stderr = <<[msg |-> "Unable to open", arg |-> <<SLASH, 102, 32>>]>>

====
